---- MODULE Spec2Model ----
(***************************************************************************)
(* A model of the myuchip Chip-8 interpreter: the bus and memory, the      *)
(* register file, the call stack, the display, the keypad, the opcode      *)
(* matcher and the CPU's fetch/decode/execute step with all of its         *)
(* registered handlers, driven by a host that steps, ticks and refreshes   *)
(* the keypad.                                                             *)
(*                                                                         *)
(* Representation: u8 and u16 values are naturals kept in range by the     *)
(* wrapping operators; a u32 pixel is the pair <<high half, low half>> of  *)
(* 16-bit halves; the 4096-byte memory and the 2048-pixel framebuffer are  *)
(* functions whose domain holds exactly the cells with a non-zero value    *)
(* (every other cell reads as zero); a panic ends the run: it is recorded   *)
(* in the variable panic and no operation is enabled afterwards.           *)
(***************************************************************************)
EXTENDS Integers, Sequences, FiniteSets, TLC

\* ------------------------------------------------------------------------
\* Integer helpers (Rust primitive operations on u8 / u16 / u32)
\* ------------------------------------------------------------------------

\* Bitwise operators on naturals, four bits at a time: the tables hold the
\* operator on two 4-bit digits, computed bit by bit
BitOf(v, k) == (v \div (IF k = 0 THEN 1 ELSE IF k = 1 THEN 2 ELSE IF k = 2 THEN 4 ELSE 8)) % 2

NibbleAnd == [a \in 0 .. 15 |-> [b \in 0 .. 15 |->
    BitOf(a, 0) * BitOf(b, 0) + 2 * (BitOf(a, 1) * BitOf(b, 1))
    + 4 * (BitOf(a, 2) * BitOf(b, 2)) + 8 * (BitOf(a, 3) * BitOf(b, 3))]]

NibbleXor == [a \in 0 .. 15 |-> [b \in 0 .. 15 |->
    ((BitOf(a, 0) + BitOf(b, 0)) % 2) + 2 * ((BitOf(a, 1) + BitOf(b, 1)) % 2)
    + 4 * ((BitOf(a, 2) + BitOf(b, 2)) % 2) + 8 * ((BitOf(a, 3) + BitOf(b, 3)) % 2)]]

RECURSIVE BitAnd(_, _)
BitAnd(a, b) ==
    IF a = 0 \/ b = 0 THEN 0
    ELSE NibbleAnd[a % 16][b % 16] + 16 * BitAnd(a \div 16, b \div 16)

RECURSIVE BitXor(_, _)
BitXor(a, b) ==
    IF a = 0 THEN b
    ELSE IF b = 0 THEN a
    ELSE NibbleXor[a % 16][b % 16] + 16 * BitXor(a \div 16, b \div 16)

\* a | b = (a ^ b) + (a & b)
BitOr(a, b) == BitXor(a, b) + BitAnd(a, b)

RECURSIVE Pow2(_)
Pow2(k) == IF k = 0 THEN 1 ELSE 2 * Pow2(k - 1)

\* u16::wrapping_shr / u8::wrapping_shr (the shift amounts used are < width)
wrapping_shr(v, k) == v \div Pow2(k)

\* u8::reverse_bits
reverse_bits(v) ==
      ((v \div 1) % 2) * 128 + ((v \div 2) % 2) * 64
    + ((v \div 4) % 2) * 32  + ((v \div 8) % 2) * 16
    + ((v \div 16) % 2) * 8  + ((v \div 32) % 2) * 4
    + ((v \div 64) % 2) * 2  + ((v \div 128) % 2) * 1

\* u8::wrapping_add
wrapping_add_u8(a, b) == (a + b) % 256

\* u16::wrapping_add, u16::wrapping_sub
wrapping_add_u16(a, b) == (a + b) % 65536
wrapping_sub_u16(a, b) == (a + 65536 - b) % 65536

\* u8::overflowing_add, u8::overflowing_sub: <<result, has_overflowed>>
overflowing_add(a, b) == << (a + b) % 256, a + b > 255 >>
overflowing_sub(a, b) == << (a + 256 - b) % 256, a < b >>

\* u8::unbounded_shl(1), u8::unbounded_shr(1)
unbounded_shl1(v) == (2 * v) % 256
unbounded_shr1(v) == v \div 2

\* `b as u8` for a bool
bool_as_u8(b) == IF b THEN 1 ELSE 0

\* u32 values as <<high 16 bits, low 16 bits>>
U32Zero == << 0, 0 >>
U32Mul01(a, bit) == << a[1] * bit, a[2] * bit >>
U32And(a, b) == << BitAnd(a[1], b[1]), BitAnd(a[2], b[2]) >>
U32Xor(a, b) == << BitXor(a[1], b[1]), BitXor(a[2], b[2]) >>

\* ------------------------------------------------------------------------
\* bus/memory.rs
\* ------------------------------------------------------------------------

SIZE == 4096

\* Memory::default: every byte is zero
Memory_default == << >>

\* Index<usize> for Memory
mem_index(m, i) == IF i \in DOMAIN m THEN m[i] ELSE 0

\* IndexMut<usize> for Memory: mem[i] = v
mem_index_mut(m, i, v) ==
    IF v = 0
    THEN [k \in (DOMAIN m) \ {i} |-> m[k]]
    ELSE [k \in (DOMAIN m) \cup {i} |-> IF k = i THEN v ELSE m[k]]

\* ------------------------------------------------------------------------
\* bus/mod.rs
\* ------------------------------------------------------------------------

\* Option::None of a numeric Option
None == -1

\* Address::MAX
MAX == SIZE - 1

mask_address(addr) == BitAnd(addr, MAX)

\* Mutant of checked_mask_address: the last address is not rejected
checked_mask_address_unchecked(addr) == BitAnd(addr, MAX)

checked_mask_address(addr) ==
    LET masked_addr == BitAnd(addr, MAX)
    IN  IF masked_addr = MAX THEN None ELSE masked_addr

read_byte(m, addr) == mem_index(m, mask_address(addr))

\* Mutant of read_word: the bytes are composed little-endian
read_word_le(m, addr) ==
    LET masked_addr == checked_mask_address(addr)
    IN  IF masked_addr = None THEN None
        ELSE mem_index(m, masked_addr) + 256 * mem_index(m, masked_addr + 1)

\* Bus::read_word: the word, or None when expect() panics
read_word(m, addr) ==
    LET masked_addr == checked_mask_address(addr)
    IN  IF masked_addr = None THEN None
        ELSE 256 * mem_index(m, masked_addr) + mem_index(m, masked_addr + 1)

write_byte(m, addr, data) == mem_index_mut(m, mask_address(addr), data)

\* ------------------------------------------------------------------------
\* display/mod.rs
\* ------------------------------------------------------------------------

WIDTH == 64
HEIGHT == 32
COLOR_WHITE == << 65535, 65535 >>

Display_default == << >>

display_index(d, i) == IF i \in DOMAIN d THEN d[i] ELSE U32Zero

display_index_mut(d, i, v) ==
    IF v = U32Zero
    THEN [k \in (DOMAIN d) \ {i} |-> d[k]]
    ELSE [k \in (DOMAIN d) \cup {i} |-> IF k = i THEN v ELSE d[k]]

\* ------------------------------------------------------------------------
\* cpu/opcode.rs
\* ------------------------------------------------------------------------

kk(raw) == BitAnd(raw, 255)
n(raw) == BitAnd(raw, 15)
nnn(raw) == BitAnd(raw, 4095)
x(raw) == BitAnd(wrapping_shr(raw, 8), 15)
y(raw) == BitAnd(wrapping_shr(raw, 4), 15)

\* ------------------------------------------------------------------------
\* cpu/regfile.rs
\* ------------------------------------------------------------------------

NUM_GPRS == 16
VF == 15
ROM_START == 512

Gprs_default == [i \in 0 .. NUM_GPRS - 1 |-> 0]

\* Timer::default
Timer_default == 255

\* Timer::decrement
\* Mutant of decrement: the counter is decremented also at 0
decrement_wrapping(t) == (t + 255) % 256

decrement(t) == IF t > 0 THEN (t + 256 - 1) % 256 ELSE t

advance_pc(c) == [c EXCEPT !.pc = wrapping_add_u16(c.pc, 2)]

\* ------------------------------------------------------------------------
\* keypad/mod.rs
\* ------------------------------------------------------------------------

NUM == 16

CPU_INDICES == << 1, 2, 3, 12,  4, 5, 6, 13,  7, 8, 9, 14,  10, 0, 11, 15 >>
KEY_INDICES == << 13, 0, 1, 2,  4, 5, 6, 8,  9, 10, 12, 14,  3, 7, 11, 15 >>

cpu_index(key_idx) == CPU_INDICES[key_idx + 1]
\* Mutant of key_index: the virtual key number is used as the physical index
key_index_identity(cpu_idx) == cpu_idx

key_index(cpu_idx) == KEY_INDICES[cpu_idx + 1]

\* Keymap::from_key; host keys are named as minifb names them
from_key(key) ==
    LET key_idx ==
            CASE key = "Key1" -> 0  [] key = "Key2" -> 1
              [] key = "Key3" -> 2  [] key = "Key4" -> 3
              [] key = "Q" -> 4     [] key = "W" -> 5
              [] key = "E" -> 6     [] key = "R" -> 7
              [] key = "A" -> 8     [] key = "S" -> 9
              [] key = "D" -> 10    [] key = "F" -> 11
              [] key = "Z" -> 12    [] key = "X" -> 13
              [] key = "C" -> 14    [] key = "V" -> 15
              [] OTHER -> 16
    IN  IF key_idx = 16 THEN None ELSE key_idx

Keypad_default == [i \in 0 .. NUM - 1 |-> FALSE]

is_key_pressed(state, cpu_idx) == state[key_index(cpu_idx)]

RECURSIVE any_key_from(_, _)
any_key_from(state, key_idx) ==
    IF key_idx >= NUM THEN None
    ELSE IF state[key_idx] THEN cpu_index(key_idx)
    ELSE any_key_from(state, key_idx + 1)

any_key(state) == any_key_from(state, 0)

\* Keypad::update_state: fill(false), then set every mapped key of the list
RECURSIVE update_state_from(_, _, _)
update_state_from(state, keys, i) ==
    IF i > Len(keys) THEN state
    ELSE LET key_idx == from_key(keys[i])
         IN  update_state_from(
                 IF key_idx # None THEN [state EXCEPT ![key_idx] = TRUE] ELSE state,
                 keys, i + 1)

\* Mutant of update_state: the state is not cleared before the keys are set
update_state_incremental(state, keys) == update_state_from(state, keys, 1)

update_state(state, keys) ==
    update_state_from([i \in 0 .. NUM - 1 |-> FALSE], keys, 1)

\* ------------------------------------------------------------------------
\* cpu/mod.rs: OpcodeMatcher, Stack
\* ------------------------------------------------------------------------

\* Mutant of OpcodeDesc: only the class nibble takes part in the match
OpcodeDesc_class(pattern, mask, handler) ==
    [pattern |-> BitAnd(pattern, \hF000), mask |-> \hF000, handler |-> handler]

OpcodeDesc(pattern, mask, handler) ==
    [pattern |-> pattern, mask |-> mask, handler |-> handler]

OPCODE_DESCS == <<
    OpcodeDesc(\h00E0, \hFFFF, "cls"),
    OpcodeDesc(\h00EE, \hFFFF, "ret"),
    OpcodeDesc(\h1000, \hF000, "jp"),
    OpcodeDesc(\h2000, \hF000, "call"),
    OpcodeDesc(\h3000, \hF000, "se_imm"),
    OpcodeDesc(\h4000, \hF000, "sne_imm"),
    OpcodeDesc(\h5000, \hF00F, "se_reg"),
    OpcodeDesc(\h6000, \hF000, "ldv_imm"),
    OpcodeDesc(\h7000, \hF000, "add_imm"),
    OpcodeDesc(\h8000, \hF00F, "ldv_reg"),
    OpcodeDesc(\h8001, \hF00F, "or"),
    OpcodeDesc(\h8002, \hF00F, "and"),
    OpcodeDesc(\h8003, \hF00F, "xor"),
    OpcodeDesc(\h8004, \hF00F, "add_reg"),
    OpcodeDesc(\h8005, \hF00F, "sub"),
    OpcodeDesc(\h8006, \hF00F, "shr"),
    OpcodeDesc(\h8007, \hF00F, "subn"),
    OpcodeDesc(\h800E, \hF00F, "shl"),
    OpcodeDesc(\h9000, \hF00F, "sne_reg"),
    OpcodeDesc(\hA000, \hF000, "ldi_imm"),
    OpcodeDesc(\hB000, \hF000, "jp_idx"),
    OpcodeDesc(\hD000, \hF000, "drw"),
    OpcodeDesc(\hE09E, \hF0FF, "skp"),
    OpcodeDesc(\hE0A1, \hF0FF, "sknp"),
    OpcodeDesc(\hF007, \hF0FF, "ldv_dt"),
    OpcodeDesc(\hF00A, \hF0FF, "ldv_key"),
    OpcodeDesc(\hF015, \hF0FF, "lddt"),
    OpcodeDesc(\hF01E, \hF0FF, "addi"),
    OpcodeDesc(\hF033, \hF0FF, "ldb"),
    OpcodeDesc(\hF055, \hF0FF, "ldi_mem"),
    OpcodeDesc(\hF065, \hF0FF, "ldv_mem") >>

\* OpcodeMatcher::register
register(registered, desc) == Append(registered, desc)

\* Cpu::new: the matcher after `for desc in OPCODE_DESCS { matcher.register(desc) }`
RECURSIVE register_all(_, _, _)
register_all(registered, descs, i) ==
    IF i > Len(descs) THEN registered
    ELSE register_all(register(registered, descs[i]), descs, i + 1)

registered_opcodes == register_all(<< >>, OPCODE_DESCS, 1)

RECURSIVE match_opcode_from(_, _, _)
match_opcode_from(registered, opcode, i) ==
    IF i > Len(registered) THEN "dummy"
    ELSE LET masked_opcode == BitAnd(opcode, registered[i].mask)
         IN  IF masked_opcode = registered[i].pattern
             THEN registered[i].handler
             ELSE match_opcode_from(registered, opcode, i + 1)

\* Mutant of match_opcode: the scan starts after the first entry
match_opcode_from_second(registered, opcode) ==
    match_opcode_from(registered, opcode, 2)

match_opcode(registered, opcode) == match_opcode_from(registered, opcode, 1)

MAX_DEPTH == 16

Stack_default == << >>

\* ------------------------------------------------------------------------
\* cpu/mod.rs: Cpu.  A handler maps the Cpu record c (pc already advanced)
\* and the raw opcode to a result [cpu, event, panic].
\* ------------------------------------------------------------------------

\* A panic is its message and, for dummy's "{:04X}", the value it formats
Panic(msg, arg) == [msg |-> msg, arg |-> arg]
NoPanic == Panic("none", None)
PanicWord == Panic("Word address out of bounds", None)
PanicNoHandler(raw) == Panic("No handler for opcode", raw)
PanicPush == Panic("assertion failed: self.stack.len() < Self::MAX_DEPTH", None)
PanicPop == Panic("assertion failed: self.stack.len() > 0", None)

\* Option<CpuEvent>
NoEvent == "None"
Draw == "Draw"
WaitForKey == "WaitForKey"

Ok(c, ev) == [cpu |-> c, event |-> ev, panic |-> NoPanic]
Panicked(c, msg) == [cpu |-> c, event |-> NoEvent, panic |-> msg]

\* Stack::pop: its assert!, the popped value, the remaining stack
pop_assert(stack) == Len(stack) > 0
\* Mutant of pop: the oldest entry is returned
pop_first(stack) == stack[1]

pop(stack) == stack[Len(stack)]
pop_rest(stack) == SubSeq(stack, 1, Len(stack) - 1)

\* Mutant of push_assert: a push onto a full stack is let through
push_assert_full(stack) == Len(stack) <= MAX_DEPTH

\* Stack::push: its assert!, the stack after the push
push_assert(stack) == Len(stack) < MAX_DEPTH
push(stack, data) == Append(stack, data)

\* Mutant of skip: the pc is never advanced
skip_never(c, condition) == c

skip(c, condition) == IF condition THEN advance_pc(c) ELSE c

set_v(c, idx, val) == [c EXCEPT !.gprs[idx] = val]

\* (*self.v(rx), *self.v(VF)) = (result, flag): rx is assigned first, VF last
set_v_vf(c, rx, result, flag) == set_v(set_v(c, rx, result), VF, flag)

dummy(c, opcode) == Panicked(c, PanicNoHandler(opcode))

add_imm(c, opcode) ==
    Ok(set_v(c, x(opcode), wrapping_add_u8(c.gprs[x(opcode)], kk(opcode))), NoEvent)

\* Mutant of add_reg: the flag is written before the result
add_reg_flag_first(c, opcode) ==
    LET rx == x(opcode)
        r  == overflowing_add(c.gprs[rx], c.gprs[y(opcode)])
    IN  Ok(set_v(set_v(c, VF, bool_as_u8(r[2])), rx, r[1]), NoEvent)

add_reg(c, opcode) ==
    LET rx == x(opcode)
        r  == overflowing_add(c.gprs[rx], c.gprs[y(opcode)])
    IN  Ok(set_v_vf(c, rx, r[1], bool_as_u8(r[2])), NoEvent)

addi(c, opcode) ==
    Ok([c EXCEPT !.index = wrapping_add_u16(c.index, c.gprs[x(opcode)])], NoEvent)

and(c, opcode) ==
    Ok(set_v(c, x(opcode), BitAnd(c.gprs[x(opcode)], c.gprs[y(opcode)])), NoEvent)

call(c, opcode) ==
    LET return_addr == c.pc
    IN  IF ~push_assert(c.stack) THEN Panicked(c, PanicPush)
        ELSE Ok([c EXCEPT !.stack = push(c.stack, return_addr), !.pc = nnn(opcode)], NoEvent)

\* Mutant of cls: the display is left as it is
cls_keep(c, opcode) == Ok(c, NoEvent)

cls(c, opcode) == Ok([c EXCEPT !.display = << >>], NoEvent)

\* drw: the body of the two nested loops for sprite row `row` and column i.
\* No cell is visited twice by one drw (at most 15 rows of 8 columns on a
\* 32 x 64 grid), so each visit sees the pixel the display held on entry and
\* the loops are written as a map over the visited cells.

\* Mutant of drw_row_pixels: the row byte is used without reverse_bits
drw_row_pixels_unreversed(m, index, row) ==
    read_byte(m, wrapping_add_u16(index, row))

drw_row_pixels(m, index, row) ==
    reverse_bits(read_byte(m, wrapping_add_u16(index, row)))

drw_display_idx(vx, vy, row, i) ==
    WIDTH * ((vy + row) % HEIGHT) + ((vx + i) % WIDTH)

drw_pixel(pixels, i) ==
    U32Mul01(COLOR_WHITE, BitAnd(wrapping_shr(pixels, i), 1))

\* The (row, column) visit that touches display cell idx: the one with
\* drw_display_idx(vx, vy, row, column) = idx
drw_visit(vx, vy, rows, idx) ==
    << ((idx \div WIDTH) + HEIGHT - (vy % HEIGHT)) % HEIGHT,
       ((idx % WIDTH) + WIDTH - (vx % WIDTH)) % WIDTH >>

drw_visited(vx, vy, rows) ==
    { drw_display_idx(vx, vy, v[1], v[2]) : v \in (0 .. rows - 1) \X (0 .. 7) }

\* Mutant of drw_new_pixel: the pixel is set, not XORed
drw_new_pixel_set(d, m, index, vx, vy, rows, idx) ==
    LET v == drw_visit(vx, vy, rows, idx)
        pixel == drw_pixel(drw_row_pixels(m, index, v[1]), v[2])
    IN  IF pixel = U32Zero THEN display_index(d, idx) ELSE pixel

drw_new_pixel(d, m, index, vx, vy, rows, idx) ==
    LET v == drw_visit(vx, vy, rows, idx)
    IN  U32Xor(display_index(d, idx), drw_pixel(drw_row_pixels(m, index, v[1]), v[2]))

drw_display(d, m, index, vx, vy, rows) ==
    LET visited == drw_visited(vx, vy, rows)
    IN  [idx \in ((DOMAIN d) \ visited)
                 \cup { k \in visited : drw_new_pixel(d, m, index, vx, vy, rows, k) # U32Zero }
            |-> IF idx \in visited
                THEN drw_new_pixel(d, m, index, vx, vy, rows, idx)
                ELSE d[idx]]

drw_has_collided(d, m, index, vx, vy, rows) ==
    \E row \in 0 .. rows - 1 : \E i \in 0 .. 7 :
        LET pixel     == drw_pixel(drw_row_pixels(m, index, row), i)
            old_pixel == display_index(d, drw_display_idx(vx, vy, row, i))
        IN  U32And(pixel, old_pixel) = COLOR_WHITE

drw(c, opcode) ==
    LET index == c.index
        vx    == c.gprs[x(opcode)]
        vy    == c.gprs[y(opcode)]
        has_collided == drw_has_collided(c.display, c.mem, index, vx, vy, n(opcode))
        new_display  == drw_display(c.display, c.mem, index, vx, vy, n(opcode))
    IN  Ok(set_v([c EXCEPT !.display = new_display], VF, bool_as_u8(has_collided)),
           Draw)

jp(c, opcode) == Ok([c EXCEPT !.pc = nnn(opcode)], NoEvent)

jp_idx(c, opcode) ==
    Ok([c EXCEPT !.pc = wrapping_add_u16(nnn(opcode), c.gprs[0])], NoEvent)

\* ldb: `for i in 0..3`
RECURSIVE ldb_loop(_, _, _, _)
ldb_loop(m, index, digits, i) ==
    IF i >= 3 THEN m
    ELSE ldb_loop(write_byte(m, wrapping_add_u16(index, i), digits[i + 1]),
                  index, digits, i + 1)

ldb(c, opcode) ==
    LET index  == c.index
        vx     == c.gprs[x(opcode)]
        digits == << vx \div 100, (vx \div 10) % 10, vx % 10 >>
    IN  Ok([c EXCEPT !.mem = ldb_loop(c.mem, index, digits, 0)], NoEvent)

lddt(c, opcode) == Ok([c EXCEPT !.delay_timer = c.gprs[x(opcode)]], NoEvent)

ldi_imm(c, opcode) == Ok([c EXCEPT !.index = nnn(opcode)], NoEvent)

\* ldi_mem: `for i in 0..=opcode.x()`
RECURSIVE ldi_mem_loop(_, _, _, _, _)
ldi_mem_loop(m, gprs, index, last, i) ==
    IF i > last THEN m
    ELSE ldi_mem_loop(write_byte(m, wrapping_add_u16(index, i), gprs[i]),
                      gprs, index, last, i + 1)

\* Mutant of ldi_mem: the range 0..x excludes x
ldi_mem_exclusive(c, opcode) ==
    Ok([c EXCEPT !.mem = ldi_mem_loop(c.mem, c.gprs, c.index, x(opcode) - 1, 0)],
       NoEvent)

ldi_mem(c, opcode) ==
    Ok([c EXCEPT !.mem = ldi_mem_loop(c.mem, c.gprs, c.index, x(opcode), 0)], NoEvent)

ldv_dt(c, opcode) == Ok(set_v(c, x(opcode), c.delay_timer), NoEvent)

ldv_imm(c, opcode) == Ok(set_v(c, x(opcode), kk(opcode)), NoEvent)

\* Mutant of ldv_key: Vx is written before the stall
ldv_key_store(c, opcode) ==
    Ok(set_v([c EXCEPT !.pc = wrapping_sub_u16(c.pc, 2)], x(opcode), 255),
       WaitForKey)

\* Mutant of ldv_key: the pc is not rewound
ldv_key_no_rewind(c, opcode) == Ok(c, WaitForKey)

ldv_key(c, opcode) ==
    Ok([c EXCEPT !.pc = wrapping_sub_u16(c.pc, 2)], WaitForKey)

\* ldv_mem: `for i in 0..=opcode.x()`
RECURSIVE ldv_mem_loop(_, _, _, _, _)
ldv_mem_loop(gprs, m, index, last, i) ==
    IF i > last THEN gprs
    ELSE ldv_mem_loop([gprs EXCEPT ![i] = read_byte(m, wrapping_add_u16(index, i))],
                      m, index, last, i + 1)

ldv_mem(c, opcode) ==
    Ok([c EXCEPT !.gprs = ldv_mem_loop(c.gprs, c.mem, c.index, x(opcode), 0)], NoEvent)

ldv_reg(c, opcode) == Ok(set_v(c, x(opcode), c.gprs[y(opcode)]), NoEvent)

or(c, opcode) ==
    Ok(set_v(c, x(opcode), BitOr(c.gprs[x(opcode)], c.gprs[y(opcode)])), NoEvent)

ret(c, opcode) ==
    IF ~pop_assert(c.stack) THEN Panicked(c, PanicPop)
    ELSE Ok([c EXCEPT !.pc = pop(c.stack), !.stack = pop_rest(c.stack)], NoEvent)

se_imm(c, opcode) == Ok(skip(c, c.gprs[x(opcode)] = kk(opcode)), NoEvent)

se_reg(c, opcode) == Ok(skip(c, c.gprs[x(opcode)] = c.gprs[y(opcode)]), NoEvent)

\* Mutant of shl: the flag is taken from bit 0 instead of bit 7
shl_low_bit(c, opcode) ==
    LET rx == x(opcode)
        vx == c.gprs[x(opcode)]
        result == unbounded_shl1(c.gprs[rx])
        has_overflowed == BitAnd(vx, 1) # 0
    IN  Ok(set_v_vf(c, rx, result, bool_as_u8(has_overflowed)), NoEvent)

shl(c, opcode) ==
    LET rx == x(opcode)
        vx == c.gprs[x(opcode)]
        result == unbounded_shl1(c.gprs[rx])
        has_overflowed == BitAnd(reverse_bits(vx), 1) # 0
    IN  Ok(set_v_vf(c, rx, result, bool_as_u8(has_overflowed)), NoEvent)

shr(c, opcode) ==
    LET rx == x(opcode)
        vx == c.gprs[x(opcode)]
        result == unbounded_shr1(c.gprs[rx])
        has_overflowed == BitAnd(vx, 1) # 0
    IN  Ok(set_v_vf(c, rx, result, bool_as_u8(has_overflowed)), NoEvent)

skp(c, opcode) == LET condition == FALSE IN Ok(skip(c, condition), NoEvent)

sknp(c, opcode) == LET condition == TRUE IN Ok(skip(c, condition), NoEvent)

sne_imm(c, opcode) == Ok(skip(c, c.gprs[x(opcode)] # kk(opcode)), NoEvent)

sne_reg(c, opcode) == Ok(skip(c, c.gprs[x(opcode)] # c.gprs[y(opcode)]), NoEvent)

\* Mutant of sub: VF receives the borrow instead of its negation
sub_borrow(c, opcode) ==
    LET rx == x(opcode)
        r  == overflowing_sub(c.gprs[rx], c.gprs[y(opcode)])
    IN  Ok(set_v_vf(c, rx, r[1], bool_as_u8(r[2])), NoEvent)

sub(c, opcode) ==
    LET rx == x(opcode)
        r  == overflowing_sub(c.gprs[rx], c.gprs[y(opcode)])
    IN  Ok(set_v_vf(c, rx, r[1], bool_as_u8(~r[2])), NoEvent)

subn(c, opcode) ==
    LET rx == x(opcode)
        r  == overflowing_sub(c.gprs[y(opcode)], c.gprs[rx])
    IN  Ok(set_v_vf(c, rx, r[1], bool_as_u8(~r[2])), NoEvent)

xor(c, opcode) ==
    Ok(set_v(c, x(opcode), BitXor(c.gprs[x(opcode)], c.gprs[y(opcode)])), NoEvent)

\* The call through the function pointer returned by match_opcode
call_handler(handler, c, opcode) ==
    CASE handler = "cls"     -> cls(c, opcode)
      [] handler = "ret"     -> ret(c, opcode)
      [] handler = "jp"      -> jp(c, opcode)
      [] handler = "call"    -> call(c, opcode)
      [] handler = "se_imm"  -> se_imm(c, opcode)
      [] handler = "sne_imm" -> sne_imm(c, opcode)
      [] handler = "se_reg"  -> se_reg(c, opcode)
      [] handler = "ldv_imm" -> ldv_imm(c, opcode)
      [] handler = "add_imm" -> add_imm(c, opcode)
      [] handler = "ldv_reg" -> ldv_reg(c, opcode)
      [] handler = "or"      -> or(c, opcode)
      [] handler = "and"     -> and(c, opcode)
      [] handler = "xor"     -> xor(c, opcode)
      [] handler = "add_reg" -> add_reg(c, opcode)
      [] handler = "sub"     -> sub(c, opcode)
      [] handler = "shr"     -> shr(c, opcode)
      [] handler = "subn"    -> subn(c, opcode)
      [] handler = "shl"     -> shl(c, opcode)
      [] handler = "sne_reg" -> sne_reg(c, opcode)
      [] handler = "ldi_imm" -> ldi_imm(c, opcode)
      [] handler = "jp_idx"  -> jp_idx(c, opcode)
      [] handler = "drw"     -> drw(c, opcode)
      [] handler = "skp"     -> skp(c, opcode)
      [] handler = "sknp"    -> sknp(c, opcode)
      [] handler = "ldv_dt"  -> ldv_dt(c, opcode)
      [] handler = "ldv_key" -> ldv_key(c, opcode)
      [] handler = "lddt"    -> lddt(c, opcode)
      [] handler = "addi"    -> addi(c, opcode)
      [] handler = "ldb"     -> ldb(c, opcode)
      [] handler = "ldi_mem" -> ldi_mem(c, opcode)
      [] handler = "ldv_mem" -> ldv_mem(c, opcode)
      [] OTHER               -> dummy(c, opcode)

\* Cpu::step, after the fetch: the call through the function pointer, with
\* the fetched opcode and the handler recorded beside the handler's result
step_dispatch(c, fetch_pc, fetched, handler) ==
    LET r == call_handler(handler, c, fetched)
    IN  [cpu |-> r.cpu, event |-> r.event, panic |-> r.panic,
         fetch_pc |-> fetch_pc, opcode |-> fetched, handler |-> handler]

\* Cpu::step
step(c) ==
    LET fetched == read_word(c.mem, c.pc)
    IN  IF fetched = None
        THEN [cpu |-> c, event |-> NoEvent, panic |-> PanicWord,
              fetch_pc |-> c.pc, opcode |-> None, handler |-> "none"]
        ELSE step_dispatch(advance_pc(c), c.pc, fetched,
                           match_opcode(registered_opcodes, fetched))

\* Cpu::tick
tick(c) ==
    [c EXCEPT !.delay_timer = decrement(c.delay_timer),
              !.sound_timer = decrement(c.sound_timer)]

\* ------------------------------------------------------------------------
\* lib.rs: Core
\* ------------------------------------------------------------------------

SPRITES_START == 80
SPRITE_SIZE == 5
NUM_SPRITES == 16
SPRITES_SIZE == SPRITE_SIZE * NUM_SPRITES
MAX_ROM_SIZE == SIZE - ROM_START

SPRITES == <<
    240, 144, 144, 144, 240,
    32,  96,  32,  32,  112,
    240, 16,  240, 128, 240,
    240, 16,  240, 16,  240,
    144, 144, 240, 16,  16,
    240, 128, 240, 16,  240,
    240, 128, 240, 144, 240,
    240, 16,  32,  64,  64,
    240, 144, 240, 144, 240,
    240, 144, 240, 16,  240,
    240, 144, 240, 144, 144,
    224, 144, 224, 144, 224,
    240, 128, 128, 128, 240,
    224, 144, 144, 144, 224,
    240, 128, 240, 128, 240,
    240, 128, 240, 128, 128 >>

\* A byte slice: its length and its non-zero bytes by 1-based position
Slice(bytes) ==
    [len |-> Len(bytes),
     at  |-> [i \in { j \in 1 .. Len(bytes) : bytes[j] # 0 } |-> bytes[i]]]

\* mem[start..start + len].copy_from_slice(&slice[..len])
copy_from_slice(m, start, slice, len) ==
    LET range  == start .. (start + len - 1)
        copied == { start + i - 1 : i \in { j \in DOMAIN slice.at : j <= len } }
    IN  [a \in ((DOMAIN m) \ range) \cup copied
            |-> IF a \in range THEN slice.at[a - start + 1] ELSE m[a]]

\* Core::new: the memory image handed to the bus
Core_new_mem(rom) ==
    LET len == IF rom.len < MAX_ROM_SIZE THEN rom.len ELSE MAX_ROM_SIZE
        m1  == copy_from_slice(Memory_default, SPRITES_START, Slice(SPRITES), SPRITES_SIZE)
    IN  copy_from_slice(m1, ROM_START, rom, len)

\* STEPS: the cap on steps per frame in Core::run
STEPS == 256

\* Mutant of step_cpu_break: only Draw ends the batch
step_cpu_break_on_draw(ev) == ev = Draw

\* Core::run: `CpuEvent::Draw | CpuEvent::WaitForKey => break 'step_cpu`
step_cpu_break(ev) == ev \in { Draw, WaitForKey }

\* ------------------------------------------------------------------------
\* State
\* ------------------------------------------------------------------------

VARIABLES
    pc,            \* regfile.pc
    gprs,          \* regfile.gprs
    index,         \* regfile.index
    delay_timer,   \* regfile.delay_timer
    sound_timer,   \* regfile.sound_timer
    mem,           \* bus.mem
    stack,         \* stack.stack
    display,       \* the shared Display
    keypad,        \* the shared Keypad's state
    fetch_pc,      \* pc the last step fetched from (step's local `pc`)
    opcode,        \* raw word fetched by the last step (None: none fetched)
    handler,       \* handler the last step dispatched to
    event,         \* Option<CpuEvent> returned by the last step
    panic,         \* NoPanic, or the panic that ended the run
    ticks,         \* number of tick calls the host has made
    old_display,   \* the Display as the last step found it
    old_gprs,      \* regfile.gprs as the last step found them
    run_at,        \* Core::run: the statement it is at
    steps,         \* Core::run: iterations of 'step_cpu done in this frame
    polled_keys    \* the key list handed to the last update_state

vars == << pc, gprs, index, delay_timer, sound_timer, mem, stack, display,
           keypad, fetch_pc, opcode, handler, event, panic, ticks,
           old_display, old_gprs, run_at, steps, polled_keys >>

\* The Cpu's mutable fields as one record
Cpu == [pc |-> pc, gprs |-> gprs, index |-> index,
        delay_timer |-> delay_timer, sound_timer |-> sound_timer,
        mem |-> mem, stack |-> stack, display |-> display]

SetCpu(c) ==
    /\ pc' = c.pc
    /\ gprs' = c.gprs
    /\ index' = c.index
    /\ delay_timer' = c.delay_timer
    /\ sound_timer' = c.sound_timer
    /\ mem' = c.mem
    /\ stack' = c.stack
    /\ display' = c.display

\* Core::new with the given ROM bytes: RegFile::default, Stack::default,
\* Display::default, Keypad::default
InitWith(rom) ==
    /\ pc = ROM_START
    /\ gprs = Gprs_default
    /\ index = 0
    /\ delay_timer = Timer_default
    /\ sound_timer = Timer_default
    /\ mem = Core_new_mem(rom)
    /\ stack = Stack_default
    /\ display = Display_default
    /\ keypad = Keypad_default
    /\ fetch_pc = None
    /\ opcode = None
    /\ handler = "none"
    /\ event = NoEvent
    /\ panic = NoPanic
    /\ ticks = 0
    /\ old_display = Display_default
    /\ old_gprs = Gprs_default
    /\ run_at = "while"
    /\ steps = 0
    /\ polled_keys = << >>

\* ------------------------------------------------------------------------
\* Host operations (Core::run calls these; a panic ends the process)
\* ------------------------------------------------------------------------

\* self.cpu.step()
StepCpu ==
    /\ panic = NoPanic
    /\ \E r \in { step(Cpu) } :
           /\ SetCpu(r.cpu)
           /\ fetch_pc' = r.fetch_pc
           /\ opcode' = r.opcode
           /\ handler' = r.handler
           /\ event' = r.event
           /\ panic' = r.panic
    /\ old_display' = display
    /\ old_gprs' = gprs
    /\ UNCHANGED << keypad, ticks, polled_keys >>

\* self.cpu.tick()
TickCpu ==
    /\ panic = NoPanic
    /\ SetCpu(tick(Cpu))
    /\ ticks' = ticks + 1
    /\ UNCHANGED << keypad, fetch_pc, opcode, handler, event, panic,
                    old_display, old_gprs, polled_keys >>

\* self.keypad.borrow_mut().update_state(keys)
UpdateStateKeypad(keys) ==
    /\ panic = NoPanic
    /\ keypad' = update_state(keypad, keys)
    /\ polled_keys' = keys
    /\ UNCHANGED << pc, gprs, index, delay_timer, sound_timer, mem, stack,
                    display, fetch_pc, opcode, handler, event, panic, ticks,
                    old_display, old_gprs >>

\* A host that calls step, tick and update_state in any order
Step == StepCpu /\ UNCHANGED << run_at, steps >>

\* Bound on the number of tick calls explored
MaxTicks == 3

Tick ==
    /\ ticks < MaxTicks
    /\ TickCpu
    /\ UNCHANGED << run_at, steps >>

\* Key lists the window may report (Space is not a mapped key)
HostKeyLists == { << >>, << "Key1" >>, << "X" >>, << "X", "Key1" >>,
                 << "Space" >>, << "V", "Space" >> }

UpdateState ==
    /\ \E keys \in HostKeyLists : UpdateStateKeypad(keys)
    /\ UNCHANGED << run_at, steps >>

\* ------------------------------------------------------------------------
\* Program images
\* ------------------------------------------------------------------------

\* The ROM holding the big-endian bytes of a sequence of 16-bit words
Words(ws) ==
    Slice([i \in 1 .. 2 * Len(ws) |->
              IF i % 2 = 1 THEN ws[(i + 1) \div 2] \div 256
                           ELSE ws[i \div 2] % 256])

\* The ROM with words ws at its start, words far at byte offset off and
\* zero bytes between them
WordsAt(ws, off, far) ==
    LET head == Words(ws).at
        tail == Words(far).at
    IN  [len |-> off + 2 * Len(far),
         at  |-> [i \in (DOMAIN head) \cup { off + j : j \in DOMAIN tail }
                     |-> IF i \in DOMAIN head THEN head[i] ELSE tail[i - off]]]

\* Programs the machine is loaded with: key wait, jumps to odd addresses
\* and to the last byte of memory, indexed jumps past 0xFFF, calls and
\* returns (nested, recursive, unmatched), skips, running off the end of
\* memory, drawing, key tests, and a sprite drawn across the screen edges
\* and left on screen while arithmetic, index, memory, timer, call and
\* return instructions run, then cleared
Roms == {
    Words(<< \hF10A, \h1200 >>),
    Words(<< \h3000, \h1FFF, \hF00A, \h6107, \h1204 >>),
    WordsAt(<< \h1FFE >>, \hDFE, << \hF30A >>),
    Words(<< \h1FFF >>),
    Words(<< \h2FFF >>),
    Words(<< \h1203, \h0060, \h0512, \h0000 >>),
    WordsAt(<< \h1FFD >>, \hDFD, << \h6001 >>),
    Words(<< \h60FF, \hBFFF >>),
    Words(<< \h6001, \hBFFE >>),
    Words(<< \h2204, \h1200, \h00EE >>),
    Words(<< \h2204, \h1200, \h2208, \h00EE, \h00EE >>),
    Words(<< \h2200 >>),
    Words(<< \h00EE >>),
    Words(<< \h4000, \h1200, \h5010, \h9010, \h1FFF >>),
    WordsAt(<< \h6012, \hF055, \h1FFC >>, \hDFC, << \h6001, \h7001 >>),
    Words(<< \hA050, \hD015, \hD015, \h00E0, \hF015, \hF107, \h1200 >>),
    Words(<< \hE09E, \hE0A1, \h1200 >>),
    Words(<< \h603E, \h611E, \hA050, \hD015, \h7001, \h8014, \hF01E,
             \hF033, \hF155, \hF165, \hF015, \h221A, \h00E0, \h00EE >>)
}

Init == \E rom \in Roms : InitWith(rom)

Next == Step \/ Tick \/ UpdateState

Spec == Init /\ [][Next]_vars

TypeOK ==
    /\ pc \in 0 .. 65535
    /\ gprs \in [0 .. NUM_GPRS - 1 -> 0 .. 255]
    /\ index \in 0 .. 65535
    /\ delay_timer \in 0 .. 255
    /\ sound_timer \in 0 .. 255
    /\ DOMAIN mem \subseteq 0 .. SIZE - 1
    /\ \A a \in DOMAIN mem : mem[a] \in 1 .. 255
    /\ Len(stack) <= MAX_DEPTH
    /\ \A i \in 1 .. Len(stack) : stack[i] \in 0 .. 65535
    /\ DOMAIN display \subseteq 0 .. WIDTH * HEIGHT - 1
    /\ keypad \in [0 .. NUM - 1 -> BOOLEAN]
    /\ event \in { NoEvent, Draw, WaitForKey }
    /\ DOMAIN old_display \subseteq 0 .. WIDTH * HEIGHT - 1
    /\ old_gprs \in [0 .. NUM_GPRS - 1 -> 0 .. 255]
    /\ run_at \in { "while", "update_state", "tick", "step_cpu",
                     "update_with_buffer", "return" }
    /\ steps \in 0 .. STEPS
    /\ polled_keys \in Seq(STRING)

\* ------------------------------------------------------------------------
\* Dispatch: the machine loaded with a single instruction word, any of the
\* 65536, and stepped
\* ------------------------------------------------------------------------

InitDispatch == \E raw \in 0 .. 65535 : InitWith(Words(<< raw >>))

NextDispatch == Step

SpecDispatch == InitDispatch /\ [][NextDispatch]_vars

\* ------------------------------------------------------------------------
\* Arithmetic: two register loads followed by one of 8xy4, 8xy5, 8xy6,
\* 8xy7, 8xyE, over boundary byte values and register pairs with and
\* without VF
\* ------------------------------------------------------------------------

AluOps == { 4, 5, 6, 7, 14 }
AluRegs == { 0, 1, 15 }
AluBytes == { 0, 1, 2, 3, 5, 15, 16, 127, 128, 129, 254, 255 }

AluRom(op, rx, ry, a, b) ==
    Words(<< \h6000 + 256 * rx + a,
             \h6000 + 256 * ry + b,
             \h8000 + 256 * rx + 16 * ry + op >>)

InitAlu ==
    \E op \in AluOps : \E rx \in AluRegs : \E ry \in AluRegs :
    \E a \in AluBytes : \E b \in AluBytes :
        InitWith(AluRom(op, rx, ry, a, b))

NextAlu == Step

SpecAlu == InitAlu /\ [][NextAlu]_vars

\* ------------------------------------------------------------------------
\* Bus: an indexed jump to every address from 0 to 0x10FE, with data in the
\* last four bytes of memory, so that every such address is fetched from
\* ------------------------------------------------------------------------

BusOffsets == { 0, 255 }

BusRom(target, v0) ==
    WordsAt(<< \h6000 + v0, \hB000 + target >>, \hDFC, << \hABCD, \h12EF >>)

InitBus ==
    \E target \in 0 .. SIZE - 1 : \E v0 \in BusOffsets :
        InitWith(BusRom(target, v0))

NextBus == Step

SpecBus == InitBus /\ [][NextBus]_vars

\* ------------------------------------------------------------------------
\* Programs: the machine loaded with any program of the families below and
\* stepped until it stops
\* ------------------------------------------------------------------------

\* Drawing: a background sprite (none, or the digit 8) drawn at (0, 0), then
\* one sprite drawn three times in succession at coordinates that stay on
\* the screen or wrap around its right and bottom edges, from an index that
\* points at a digit, at zero bytes, at the last two bytes of memory or
\* above 0xFFF, with VF as one of the coordinate registers or not
DrawRoms ==
    { LET draw == \hD000 + 256 * p[2][1] + 16 * p[2][2] + p[6]
      IN  WordsAt(<< \hA000 + p[1], \hD235,
                     \h6000 + 256 * p[2][1] + p[3],
                     \h6000 + 256 * p[2][2] + p[4] >>
                      \o p[5] \o << draw, draw, draw >>,
                  \hDFE, << \hFF81 >>) :
        p \in { \h000, \h078 }
              \X { << 0, 1 >>, << 15, 1 >>, << 0, 15 >> }
              \X { 0, 1, 62, 255 }
              \X { 0, 1, 30, 255 }
              \X { << \hA050 >>, << \hA000 >>, << \hAFFE >>,
                   << \h6451, \hAFFF, \hF41E >> }
              \X { 0, 1, 5, 15 } }

\* Skips: two register loads, then one of 3xkk, 4xkk, 5xy0, 9xy0 on them,
\* with kk the second loaded value, over equal and unequal operands and
\* register pairs with and without VF
SkipRoms ==
    { Words(<< \h6000 + 256 * p[2] + p[4],
               \h6000 + 256 * p[3] + p[5],
               IF p[1] \in { 3, 4 }
               THEN 4096 * p[1] + 256 * p[2] + p[5]
               ELSE 4096 * p[1] + 256 * p[2] + 16 * p[3] >>) :
        p \in { 3, 4, 5, 9 } \X { 0, 1, 15 } \X { 0, 1, 15 }
              \X { 0, 1, 127, 255 } \X { 0, 1, 127, 255 } }

\* Block transfers: the index set to the ROM area, to the last bytes of
\* memory, above 0xFFF, or by 241 additions to 0xFFF8; six registers
\* loaded; V0..Vx stored; four registers overwritten; V0..Vx loaded back
BlockRoms ==
    { Words(p[1]
            \o << \h6011, \h6122, \h6233, \h6344, \h6EEE, \h6FFF,
                  \hF055 + 256 * p[2],
                  \h6001, \h6102, \h6203, \h6304,
                  \hF065 + 256 * p[2] >>) :
        p \in { << \hA300 >>, << \hAFFE >>, << \hAFFF >>,
                << \h6011, \hAFFF, \hF01E >>,
                << \h60FF, \hAFFF >> \o [i \in 1 .. 240 |-> \hF01E]
                    \o << \h60E9, \hF01E >> }
              \X { 0, 1, 3, 15 } }

InitPrograms ==
    \E rom \in DrawRoms \cup SkipRoms \cup BlockRoms : InitWith(rom)

NextPrograms == Step

SpecPrograms == InitPrograms /\ [][NextPrograms]_vars

\* ------------------------------------------------------------------------
\* Core::run: the frame loop.  run_at names the statement about to run.
\* ------------------------------------------------------------------------

\* Bound on the number of frames explored
MaxFrames == 257

\* `while window.is_open() && !window.is_key_down(Key::Escape)`
RunWhile ==
    /\ run_at = "while"
    /\ panic = NoPanic
    /\ \E open \in BOOLEAN :
           run_at' = IF open /\ ticks < MaxFrames THEN "update_state" ELSE "return"
    /\ UNCHANGED << pc, gprs, index, delay_timer, sound_timer, mem, stack,
                    display, keypad, fetch_pc, opcode, handler, event, panic,
                    ticks, old_display, old_gprs, steps, polled_keys >>

\* `self.keypad.borrow_mut().update_state(window.get_keys())`
RunUpdateState ==
    /\ run_at = "update_state"
    /\ \E keys \in HostKeyLists : UpdateStateKeypad(keys)
    /\ run_at' = "tick"
    /\ steps' = steps

\* `self.cpu.tick()`, then `'step_cpu: for _ in 0..Cpu::STEPS` begins
RunTick ==
    /\ run_at = "tick"
    /\ TickCpu
    /\ run_at' = "step_cpu"
    /\ steps' = 0

\* One iteration of 'step_cpu: the step, the break on an event, the end of
\* the range
RunStep ==
    /\ run_at = "step_cpu"
    /\ steps < STEPS
    /\ StepCpu
    /\ steps' = steps + 1
    /\ run_at' = IF step_cpu_break(event') \/ steps + 1 >= STEPS
                 THEN "update_with_buffer"
                 ELSE "step_cpu"

\* `window.update_with_buffer(self.display.borrow().as_slice(), ...)`
RunUpdateWithBuffer ==
    /\ run_at = "update_with_buffer"
    /\ panic = NoPanic
    /\ run_at' = "while"
    /\ UNCHANGED << pc, gprs, index, delay_timer, sound_timer, mem, stack,
                    display, keypad, fetch_pc, opcode, handler, event, panic,
                    ticks, old_display, old_gprs, steps, polled_keys >>

\* Programs run by the frame loop: a key wait, a counting loop of 768 steps
\* that then jumps to the last byte of memory, a drawing loop, and a key
\* wait after the delay timer was set to 2
RunRoms == {
    Words(<< \hF10A, \h1200 >>),
    Words(<< \h7001, \h3000, \h1200, \h1FFF >>),
    Words(<< \hA050, \hD015, \h1202 >>),
    Words(<< \h6002, \hF015, \hF10A >>)
}

InitRun == \E rom \in RunRoms : InitWith(rom)

NextRun ==
    RunWhile \/ RunUpdateState \/ RunTick \/ RunStep \/ RunUpdateWithBuffer

SpecRun == InitRun /\ [][NextRun]_vars

\* ------------------------------------------------------------------------
\* Keypad: the machine idle while the host polls the keyboard, which
\* reports any list of up to MaxKeys distinct keys among Space and the
\* sixteen mapped keys, in the order of a scan that ends at Key1
\* ------------------------------------------------------------------------

\* Bound on the length of the key lists explored
MaxKeys == 2

InitKeypad == InitWith(Words(<< \hF10A, \h1200 >>))

NextKeypad ==
    /\ LET names == << "Key1", "Key2", "Key3", "Key4", "Q", "W", "E", "R",
                       "A", "S", "D", "F", "Z", "X", "C", "V", "Space" >>
       IN  \E len \in 0 .. MaxKeys :
           \E order \in { f \in [1 .. len -> 1 .. Len(names)] :
                            \A i \in 1 .. len : \A j \in 1 .. len :
                                i < j => f[i] > f[j] } :
               UpdateStateKeypad([i \in 1 .. len |-> names[order[i]]])
    /\ UNCHANGED << run_at, steps >>

SpecKeypad == InitKeypad /\ [][NextKeypad]_vars

\* ------------------------------------------------------------------------
\* Properties of the stepped machine
\* ------------------------------------------------------------------------

NoKeyDown == \A k \in 0 .. NUM - 1 : ~keypad[k]

\* The two bytes at address a (mod 4096) and the next one form an Fx0A word
LdvKeyAt(m, a) ==
    /\ a % SIZE # SIZE - 1
    /\ mem_index(m, a % SIZE) \div 16 = 15
    /\ mem_index(m, (a % SIZE) + 1) = 10

\* C1: a step taken with no key down on an Fx0A instruction returns
\* Wait-for-key and leaves pc where it was, still pointing at that Fx0A, so
\* the following step fetches the same instruction again.
C1_WaitForKeyStall ==
    [][ (Step /\ NoKeyDown /\ LdvKeyAt(mem, pc))
            => /\ event' = WaitForKey
               /\ panic' = NoPanic
               /\ pc' = pc
               /\ LdvKeyAt(mem', pc') ]_vars

C1_Witness ==
    /\ handler = "ldv_key"
    /\ event = WaitForKey
    /\ NoKeyDown
    /\ pc = fetch_pc
    /\ LdvKeyAt(mem, pc)

\* C2: Wait-for-key is returned only when no key is pressed, and a step
\* taken on an Fx0A instruction while a key is down does not return
\* Wait-for-key and ends with pc 2 past the instruction.
C2_KeyDownProceeds ==
    [][ Step => /\ (event' = WaitForKey => NoKeyDown)
                /\ ((~NoKeyDown /\ LdvKeyAt(mem, pc))
                        => event' # WaitForKey /\ pc' = (pc + 2) % 65536) ]_vars

C10_CallRetRoundTrip ==
    [][ Step =>
          /\ (handler' = "call" /\ panic' = NoPanic
                => /\ stack' = Append(stack, (pc + 2) % 65536)
                   /\ pc' = opcode' % 4096)
          /\ (handler' = "ret" /\ panic' = NoPanic
                => /\ pc' = stack[Len(stack)]
                   /\ stack = Append(stack', pc'))
          /\ (handler = "call" /\ handler' = "ret"
                => /\ panic' = NoPanic
                   /\ pc' = (fetch_pc + 2) % 65536
                   /\ stack = Append(stack', pc')) ]_vars

\* The inner ret of two nested calls has just returned
C10_Witness ==
    /\ handler = "ret"
    /\ panic = NoPanic
    /\ Len(stack) = 1
    /\ pc = stack[1] + 4

FirstMatch(raw) ==
    LET matching == { i \in 1 .. Len(OPCODE_DESCS) :
                        BitAnd(raw, OPCODE_DESCS[i].mask) = OPCODE_DESCS[i].pattern }
    IN  IF matching = {} THEN 0
        ELSE CHOOSE i \in matching : \A j \in matching : i <= j

\* C5: a fetched instruction is dispatched to the handler of the first
\* registered entry whose pattern it matches under the entry's mask, and to
\* the fallback, which panics reporting the raw value, when none matches.
C5_DispatchFirstMatch ==
    opcode # None =>
        LET i == FirstMatch(opcode)
        IN  IF i = 0
            THEN handler = "dummy" /\ panic = PanicNoHandler(opcode)
            ELSE handler = OPCODE_DESCS[i].handler
                 /\ panic.msg # PanicNoHandler(opcode).msg

\* 5xy1 matches no entry (se_reg wants a zero low nibble)
C5_Witness ==
    /\ opcode = \h5AB1
    /\ handler = "dummy"
    /\ panic = PanicNoHandler(\h5AB1)

\* The 35 standard Chip-8 opcode classes
IsStandardOpcode(raw) ==
    LET hi == raw \div 4096
        lo == raw % 16
        lb == raw % 256
    IN  \/ hi \in { 0, 1, 2, 3, 4, 6, 7, 10, 11, 12, 13 }
        \/ hi = 5 /\ lo = 0
        \/ hi = 8 /\ lo \in { 0, 1, 2, 3, 4, 5, 6, 7, 14 }
        \/ hi = 9 /\ lo = 0
        \/ hi = 14 /\ lb \in { \h9E, \hA1 }
        \/ hi = 15 /\ lb \in { \h07, \h0A, \h15, \h18, \h1E, \h29, \h33, \h55, \h65 }

\* C6: an instruction of any of the 35 standard classes is dispatched to a
\* registered handler and never reaches the unimplemented-opcode fallback.
C6_AllStandardOpcodesImplemented ==
    (opcode # None /\ IsStandardOpcode(opcode))
        => handler # "dummy" /\ panic.msg # PanicNoHandler(opcode).msg

\* C7: after add Vx,Vy, VF is 1 if Vx + Vy > 255 and 0 otherwise, and for
\* x # F, Vx is (Vx + Vy) mod 256; with x = F the flag stays in VF.
C7_AddCarry ==
    [][ (Step /\ handler' = "add_reg") =>
          LET rx  == (opcode' \div 256) % 16
              ry  == (opcode' \div 16) % 16
              sum == gprs[rx] + gprs[ry]
          IN  /\ gprs'[15] = (IF sum > 255 THEN 1 ELSE 0)
              /\ (rx # 15 => gprs'[rx] = sum % 256)
              /\ \A r \in 0 .. 14 : r # rx => gprs'[r] = gprs[r]
              /\ panic' = NoPanic ]_vars

\* add VF,V0 with VF = 0xFF and V0 = 1: the carry, not the sum 0, is in VF
C7_Witness ==
    /\ handler = "add_reg"
    /\ opcode = \h8F04
    /\ gprs[0] = 1
    /\ gprs[15] = 1

\* C8: after sub Vx,Vy, VF is 1 iff Vx >= Vy and, for x # F, Vx is
\* (Vx - Vy) mod 256; after subn Vx,Vy, VF is 1 iff Vy >= Vx and, for
\* x # F, Vx is (Vy - Vx) mod 256.
C8_SubNotBorrow ==
    [][ (Step /\ handler' \in { "sub", "subn" }) =>
          LET rx == (opcode' \div 256) % 16
              ry == (opcode' \div 16) % 16
              minuend    == IF handler' = "sub" THEN gprs[rx] ELSE gprs[ry]
              subtrahend == IF handler' = "sub" THEN gprs[ry] ELSE gprs[rx]
          IN  /\ gprs'[15] = (IF minuend >= subtrahend THEN 1 ELSE 0)
              /\ (rx # 15 => gprs'[rx] = (minuend + 256 - subtrahend) % 256)
              /\ \A r \in 0 .. 14 : r # rx => gprs'[r] = gprs[r]
              /\ panic' = NoPanic ]_vars

\* sub V0,V1 with equal operands: result 0, VF = 1
C8_Witness ==
    /\ handler = "sub"
    /\ opcode = \h8015
    /\ gprs[1] = 128
    /\ gprs[0] = 0
    /\ gprs[15] = 1

\* C9: after shl Vx, VF is bit 7 of Vx and, for x # F, Vx is (2 * Vx) mod
\* 256; after shr Vx, VF is bit 0 of Vx and, for x # F, Vx is Vx div 2; Vy
\* takes no part.
C9_ShiftVx ==
    [][ (Step /\ handler' \in { "shl", "shr" }) =>
          LET rx == (opcode' \div 256) % 16
              v  == gprs[rx]
          IN  /\ gprs'[15] = (IF handler' = "shl" THEN v \div 128 ELSE v % 2)
              /\ (rx # 15 => gprs'[rx] = (IF handler' = "shl" THEN (2 * v) % 256
                                                             ELSE v \div 2))
              /\ \A r \in 0 .. 14 : r # rx => gprs'[r] = gprs[r]
              /\ panic' = NoPanic ]_vars

\* shl V0 with V0 = 0x81 and V1 = 0xFF: V0 = 0x02, VF = 1, V1 untouched
C9_Witness ==
    /\ handler = "shl"
    /\ opcode = \h801E
    /\ gprs[0] = 2
    /\ gprs[1] = 255
    /\ gprs[15] = 1

\* C11: the stack holds between 0 and 16 return addresses; a call stepped
\* with fewer than 16 entries pushes one, a call stepped with 16 entries
\* panics and leaves all 16 entries as they were, and a ret stepped with an
\* empty stack panics.
C11_StackBounds ==
    [][ StepCpu =>
          /\ Len(stack) \in 0 .. 16
          /\ Len(stack') \in 0 .. 16
          /\ (handler' = "call" /\ Len(stack) < 16
                => panic' = NoPanic /\ Len(stack') = Len(stack) + 1
                   /\ SubSeq(stack', 1, Len(stack)) = stack)
          /\ (handler' = "call" /\ Len(stack) = 16
                => panic' = PanicPush /\ stack' = stack)
          /\ (handler' = "ret" /\ Len(stack) = 0
                => panic' = PanicPop /\ stack' = stack)
          /\ (handler' = "ret" /\ Len(stack) > 0 => panic' = NoPanic) ]_vars

\* The 17th of a chain of nested calls has panicked on a full stack
C11_Witness ==
    /\ handler = "call"
    /\ panic = PanicPush
    /\ Len(stack) = 16

\* Bit (7 - col) of the sprite byte of row `row`: the byte at (i + row) mod 4096
SpriteBit(m, i, row, col) ==
    (mem_index(m, (i + row) % SIZE) \div (2 ^ (7 - col))) % 2

\* The cells that the set bits of a sprite of `rows` rows at index i fall on
\* when it is drawn at (vx, vy), coordinates wrapping at the screen edges
SpriteCells(m, i, vx, vy, rows) ==
    { WIDTH * ((vy + rc[1]) % HEIGHT) + ((vx + rc[2]) % WIDTH) :
        rc \in { p \in (0 .. rows - 1) \X (0 .. 7) : SpriteBit(m, i, p[1], p[2]) = 1 } }

\* The cells of a framebuffer that are on
OnCells(d) == { idx \in DOMAIN d : d[idx] # U32Zero }

\* The step about to be taken draws again the sprite the last step drew, at
\* the same coordinates
SecondDraw ==
    /\ handler = "drw"
    /\ handler' = "drw"
    /\ opcode' = opcode
    /\ gprs[(opcode \div 256) % 16] = old_gprs[(opcode \div 256) % 16]
    /\ gprs[(opcode \div 16) % 16] = old_gprs[(opcode \div 16) % 16]

\* C12 (as claimed): drawing a sprite twice in succession at the same
\* coordinates restores the framebuffer, and after the second draw VF is 1
\* if the sprite has a set bit and n > 0, and 0 otherwise, whatever the
\* framebuffer held.
C12_DoubleDrawFlagFromSprite ==
    [][ (StepCpu /\ SecondDraw) =>
          LET cells == SpriteCells(mem, index, gprs[(opcode \div 256) % 16],
                                   gprs[(opcode \div 16) % 16], opcode % 16)
          IN  /\ display' = old_display
              /\ gprs'[15] = (IF cells # {} THEN 1 ELSE 0) ]_vars

\* C12 (amended): drawing a sprite twice in succession at the same
\* coordinates restores the framebuffer, and after the second draw VF is 1
\* iff a set bit of the sprite falls on a pixel that was off before the
\* first draw.
C12_DoubleDrawRestores ==
    [][ (StepCpu /\ SecondDraw) =>
          LET cells == SpriteCells(mem, index, gprs[(opcode \div 256) % 16],
                                   gprs[(opcode \div 16) % 16], opcode % 16)
          IN  /\ display' = old_display
              /\ gprs'[15] = (IF cells \ OnCells(old_display) # {} THEN 1 ELSE 0) ]_vars

\* The digit 0 drawn a second time at (62, 30) over the digit 8 at (0, 0):
\* the framebuffer again holds the 8 alone and VF = 1
C12_Witness ==
    /\ handler = "drw"
    /\ opcode = \hD015
    /\ fetch_pc = \h20C
    /\ gprs[0] = 62
    /\ gprs[1] = 30
    /\ gprs[15] = 1
    /\ display # << >>
    /\ display # old_display
    /\ OnCells(display) \subseteq OnCells(old_display)

\* C17: drw Vx,Vy,n XORs bit (7 - c) of the byte at (I + r) mod 4096 into
\* the pixel at column (Vx + c) mod 64, row (Vy + r) mod 32, for r < n and
\* c < 8, with Vx and Vy as they were before the step; VF becomes 1 iff a
\* set bit fell on a pixel that was on, else 0; no other register changes
\* and the step returns Draw, also when n = 0.
C17_DrwPixels ==
    [][ (StepCpu /\ handler' = "drw") =>
          LET cells == SpriteCells(mem, index, gprs[(opcode' \div 256) % 16],
                                   gprs[(opcode' \div 16) % 16], opcode' % 16)
              on    == OnCells(display)
          IN  /\ DOMAIN display' = (on \ cells) \cup (cells \ on)
              /\ \A idx \in DOMAIN display' : display'[idx] = COLOR_WHITE
              /\ gprs'[15] = (IF cells \cap on # {} THEN 1 ELSE 0)
              /\ \A r \in 0 .. 14 : gprs'[r] = gprs[r]
              /\ event' = Draw
              /\ panic' = NoPanic
              /\ pc' = (pc + 2) % 65536
              /\ mem' = mem /\ index' = index /\ stack' = stack ]_vars

\* The digit 0 drawn at (62, 30) on a blank screen: its pixels wrap around
\* the right and the bottom edge, and VF = 0
C17_Witness ==
    /\ handler = "drw"
    /\ opcode = \hD015
    /\ old_gprs[0] = 62
    /\ old_gprs[1] = 30
    /\ old_display = << >>
    /\ OnCells(display) = { 1982, 1983, 1920, 1921,  2046, 1985,
                            62, 1,  126, 65,  190, 191, 128, 129 }
    /\ gprs[15] = 0
    /\ event = Draw

\* C13: a tick decrements the delay timer and the sound timer by 1 each
\* when above 0 and leaves a timer at 0 where it is, so no timer wraps to
\* 255; it changes nothing else of the machine.
C13_TickFloorsAtZero ==
    [][ ticks' # ticks =>
          /\ delay_timer' = (IF delay_timer > 0 THEN delay_timer - 1 ELSE 0)
          /\ sound_timer' = (IF sound_timer > 0 THEN sound_timer - 1 ELSE 0)
          /\ delay_timer' <= delay_timer
          /\ sound_timer' <= sound_timer
          /\ UNCHANGED << pc, gprs, index, mem, stack, display >> ]_vars

\* Both timers have been ticked at 0 and are still 0
C13_Witness ==
    /\ delay_timer = 0
    /\ sound_timer = 0
    /\ ticks > 255

\* C15: every frame of Core::run polls the keypad, then ticks once, then
\* steps at most 256 times; a step is issued only as the first of its frame
\* or after a step of the same frame that returned no event, so the batch
\* ends right after a Draw or a Wait-for-key and what follows is the next
\* frame's keypad poll.
C15_FrameLoop ==
    [][ /\ (steps' # steps /\ steps' # 0 =>
              /\ run_at = "step_cpu"
              /\ steps' = steps + 1
              /\ steps' <= STEPS
              /\ (steps > 0 => event = NoEvent)
              /\ (event' \in { Draw, WaitForKey } \/ steps' = STEPS
                    => run_at' = "update_with_buffer")
              /\ UNCHANGED << keypad, ticks >>)
        /\ (ticks' # ticks =>
              /\ run_at = "tick"
              /\ ticks' = ticks + 1
              /\ steps' = 0
              /\ run_at' = "step_cpu")
        /\ (keypad' # keypad => run_at = "update_state")
        /\ (run_at' # run_at =>
              << run_at, run_at' >> \in
                  { << "while", "update_state" >>, << "while", "return" >>,
                    << "update_state", "tick" >>, << "tick", "step_cpu" >>,
                    << "step_cpu", "update_with_buffer" >>,
                    << "update_with_buffer", "while" >> }) ]_vars

\* A frame whose batch ran to the cap of 256 steps without an event
C15_Witness ==
    /\ run_at = "update_with_buffer"
    /\ steps = STEPS
    /\ event = NoEvent
    /\ panic = NoPanic

\* C14: skp Vx leaves pc 4 past the instruction iff the key numbered Vx is
\* pressed and 2 past it otherwise; sknp Vx leaves pc 4 past the instruction
\* iff that key is not pressed and 2 past it otherwise.
C14_SkipOnKey ==
    [][ (Step /\ handler' \in { "skp", "sknp" }
              /\ gprs[(opcode' \div 256) % 16] < NUM) =>
          LET pressed == is_key_pressed(keypad, gprs[(opcode' \div 256) % 16])
              skips   == IF handler' = "skp" THEN pressed ELSE ~pressed
          IN  pc' = (pc + (IF skips THEN 4 ELSE 2)) % 65536 ]_vars

\* C16: every pixel of the framebuffer is 0 or 0xFFFFFFFF; only a step that
\* runs cls or drw changes the framebuffer; cls turns every pixel off and
\* returns no event.
C16_Framebuffer ==
    [][ /\ \A idx \in DOMAIN display' : display'[idx] \in { U32Zero, COLOR_WHITE }
        /\ (display' # display =>
              /\ handler' \in { "cls", "drw" }
              /\ old_display' = display
              /\ ticks' = ticks
              /\ keypad' = keypad)
        /\ (StepCpu /\ handler' = "cls" =>
              /\ OnCells(display') = {}
              /\ event' = NoEvent
              /\ panic' = NoPanic
              /\ pc' = (pc + 2) % 65536
              /\ UNCHANGED << gprs, index, mem, stack, delay_timer, sound_timer >>)
      ]_vars

\* cls has cleared a screen that showed a sprite
C16_Witness ==
    /\ handler = "cls"
    /\ OnCells(old_display) # {}
    /\ OnCells(display) = {}
    /\ event = NoEvent

\* C18: Fx55 writes Vi to address (I + i) mod 4096 for every i in 0..x and
\* no other byte; Fx65 loads Vi from address (I + i) mod 4096 for every i
\* in 0..x and leaves the registers above Vx alone; neither panics, for
\* any I.
C18_BlockTransfers ==
    [][ /\ (StepCpu /\ handler' = "ldi_mem" =>
              LET last  == (opcode' \div 256) % 16
                  addrs == { (index + i) % SIZE : i \in 0 .. last }
              IN  /\ \A i \in 0 .. last :
                        mem_index(mem', (index + i) % SIZE) = gprs[i]
                  /\ \A a \in ((DOMAIN mem) \cup (DOMAIN mem')) \ addrs :
                        mem_index(mem', a) = mem_index(mem, a)
                  /\ panic' = NoPanic
                  /\ event' = NoEvent
                  /\ UNCHANGED << gprs, index, stack, display >>)
        /\ (StepCpu /\ handler' = "ldv_mem" =>
              LET last == (opcode' \div 256) % 16
              IN  /\ \A i \in 0 .. last :
                        gprs'[i] = mem_index(mem, (index + i) % SIZE)
                  /\ \A r \in (last + 1) .. 15 : gprs'[r] = gprs[r]
                  /\ panic' = NoPanic
                  /\ event' = NoEvent
                  /\ UNCHANGED << mem, index, stack, display >>) ]_vars

\* V0..VF stored from I = 0xFFF8: V7 is in the last byte of memory, V8..VF
\* are in bytes 0..7
C18_Witness ==
    /\ handler = "ldi_mem"
    /\ opcode = \hFF55
    /\ index = \hFFF8
    /\ mem_index(mem, \hFF8) = \h11
    /\ mem_index(mem, \hFFB) = \h44
    /\ mem_index(mem, 6) = \hEE
    /\ mem_index(mem, 7) = \hFF
    /\ panic = NoPanic

\* C19: after 3xkk, 4xkk, 5xy0 and 9xy0 the pc is 4 past the instruction
\* when the condition (Vx = kk, Vx # kk, Vx = Vy, Vx # Vy) holds and 2 past
\* it otherwise, and registers, index, memory, stack, timers and display
\* are as before.
C19_ConditionalSkips ==
    [][ (StepCpu /\ handler' \in { "se_imm", "sne_imm", "se_reg", "sne_reg" }) =>
          LET vx == gprs[(opcode' \div 256) % 16]
              vy == gprs[(opcode' \div 16) % 16]
              condition ==
                  CASE handler' = "se_imm"  -> vx = opcode' % 256
                    [] handler' = "sne_imm" -> vx # opcode' % 256
                    [] handler' = "se_reg"  -> vx = vy
                    [] handler' = "sne_reg" -> vx # vy
          IN  /\ pc' = (pc + (IF condition THEN 4 ELSE 2)) % 65536
              /\ panic' = NoPanic
              /\ event' = NoEvent
              /\ UNCHANGED << gprs, index, mem, stack, delay_timer,
                              sound_timer, display >> ]_vars

\* 9F10 with VF = 255 and V1 = 127: the next instruction is skipped
C19_Witness ==
    /\ handler = "sne_reg"
    /\ opcode = \h9F10
    /\ gprs[15] = 255
    /\ gprs[1] = 127
    /\ pc = fetch_pc + 4

\* The entries of the matcher's list whose pattern raw matches under their
\* mask
MatchingEntries(registered, raw) ==
    { i \in 1 .. Len(registered) :
        BitAnd(raw, registered[i].mask) = registered[i].pattern }

\* C20: at most one registered (pattern, mask) entry matches a fetched
\* instruction, so the handler it is dispatched to is the handler of every
\* entry that matches it, in whatever order the entries were registered.
C20_ClassDisjoint ==
    opcode # None =>
        \A registered \in { registered_opcodes } :
        \A matching \in { MatchingEntries(registered, opcode) } :
            /\ Cardinality(matching) <= 1
            /\ \A i \in matching : handler = registered[i].handler
            /\ (matching = {} => handler = "dummy")

\* 8AB4 shares its class nibble with nine entries and matches add_reg alone
C20_Witness ==
    /\ opcode = \h8AB4
    /\ handler = "add_reg"
    /\ MatchingEntries(registered_opcodes, opcode) = { 14 }

\* The host key of each physical key index, 0 to 15
PhysicalKeys == << "Key1", "Key2", "Key3", "Key4", "Q", "W", "E", "R",
                   "A", "S", "D", "F", "Z", "X", "C", "V" >>

\* The physical key indices that are down
KeysDown(state) == { k \in 0 .. NUM - 1 : state[k] }

\* C21: after update_state(keys) a key is pressed iff its host key is an
\* element of keys, whatever was pressed before the call; any_key then
\* returns None iff no key is pressed, and otherwise the virtual key number
\* of the pressed key with the lowest physical index.  (A poll is the step
\* that changes polled_keys; one that reports the same list again changes
\* nothing.)
C21_KeypadRefresh ==
    [][ polled_keys' # polled_keys =>
          \A down \in { KeysDown(keypad') } :
          \A key \in { any_key(keypad') } :
              /\ down = { k \in 0 .. NUM - 1 :
                            \E i \in 1 .. Len(polled_keys') :
                                polled_keys'[i] = PhysicalKeys[k + 1] }
              /\ (down = {} <=> key = None)
              /\ \A k \in down :
                    (\A j \in down : k <= j) => key = CPU_INDICES[k + 1] ]_vars

\* V and Key2 polled: physical keys 1 and 15 alone are down and any_key
\* reports 2, the virtual number of the lower one
C21_Witness ==
    /\ polled_keys = << "V", "Key2" >>
    /\ KeysDown(keypad) = { 1, 15 }
    /\ any_key(keypad) = 2

\* C22: a step that returns Wait-for-key leaves the pc where it was and
\* leaves the sixteen registers, the index, both timers, memory, the stack
\* and the framebuffer unchanged.
C22_WaitForKeyPureStall ==
    [][ (StepCpu /\ event' = WaitForKey) =>
          /\ pc' = pc
          /\ panic' = NoPanic
          /\ UNCHANGED << gprs, index, delay_timer, sound_timer, mem, stack,
                          display >> ]_vars

\* A stalled step taken after a tick, with a key held down
C22_Witness ==
    /\ event = WaitForKey
    /\ pc = fetch_pc
    /\ gprs = old_gprs
    /\ display = old_display
    /\ ticks > 0
    /\ delay_timer = 255 - ticks
    /\ KeysDown(keypad) # {}

\* C23: cpu_index and key_index are mutually inverse permutations of
\* 0..15, so is_key_pressed(c) holds exactly when the physical key whose
\* virtual number is c is down, and the key any_key reports is one that
\* is_key_pressed finds pressed.
C23_KeymapInverse ==
    /\ \A c \in 0 .. NUM - 1 : cpu_index(key_index(c)) = c
    /\ \A k \in 0 .. NUM - 1 : key_index(cpu_index(k)) = k
    /\ { cpu_index(k) : k \in 0 .. NUM - 1 } = 0 .. NUM - 1
    /\ { key_index(c) : c \in 0 .. NUM - 1 } = 0 .. NUM - 1
    /\ \A c \in 0 .. NUM - 1 :
          is_key_pressed(keypad, c)
              <=> (\E k \in KeysDown(keypad) : cpu_index(k) = c)
    /\ (any_key(keypad) # None => is_key_pressed(keypad, any_key(keypad)))

\* X alone is down: it is physical key 13 and virtual key 0
C23_Witness ==
    /\ polled_keys = << "X" >>
    /\ KeysDown(keypad) = { 13 }
    /\ is_key_pressed(keypad, 0)
    /\ any_key(keypad) = 0

====
